---- MODULE Spec2Model ----
(***************************************************************************)
(* Exchange matching engine (src/server.py): the request dispatcher, the   *)
(* provisioning handler, the transaction handler with its order, query and *)
(* cancel children, and the matcher, over a relational store with          *)
(* commit / rollback.                                                      *)
(*                                                                         *)
(* The store is external and persistent: the server opens a pool on the    *)
(* database "exchange" (DB_CONFIG) and neither creates nor clears a table, *)
(* so a run starts from the rows an earlier deployment left.  Requests are *)
(* served one at a time here (one client connection at a time).            *)
(*                                                                         *)
(* A request is taken as delivered to _handle_client.  start() itself      *)
(* (lines 35-66) names self._woker_process at line 52, which the class     *)
(* does not have, so with num_workers > 0 it raises before it accepts a    *)
(* connection; the handlers are modelled as the methods they are.          *)
(* _handle_transaction is entered directly as well as through              *)
(* _process_xml, which never reaches it (lines 104-108).                   *)
(***************************************************************************)
EXTENDS Integers, Sequences, FiniteSets, TLC

----------------------------------------------------------------------------
(* Bounds of the model *)

\* most requests the server is sent
MaxRequests == 2
\* most children handled in one <transactions> envelope
MaxChildren == 2
\* most rows of the orders table when the server starts
MaxBook == 2
\* timestamps are 1..MaxTime
MaxTime == 2
\* most fill rows of the executions table when a query-only run starts
MaxFills == 2
\* most shares one position may be seeded up to
MaxPosition == 2
\* most positions one <symbol> child lists
MaxListed == 2

AccountIds == {"A", "B"}
Symbols == {"X"}
\* balance="..." of <account>, text of <symbol><account>, amount= and limit= of <order>
Balances == {-1, 2}
SeedAmounts == {-1, 1}
Amounts == {-2, -1, 1}
Limits == {1, 2}
\* limit= of the <order> children sent: float(limit_str) takes any number (line 255)
OrderLimits == Limits \cup {-1}
Times == 1..MaxTime
\* owners and amounts of the orders the store holds at the start
RestingOwners == {"B"}
RestingAmounts == {-1, 1, 2}

Abs(n) == IF n < 0 THEN -n ELSE n
Min(a, b) == IF a <= b THEN a ELSE b

RECURSIVE SumOver(_, _)
\* sum of f[x] over the finite set S
SumOver(S, f) ==
    IF S = {} THEN 0
    ELSE LET x == CHOOSE y \in S : TRUE
         IN f[x] + SumOver(S \ {x}, f)

----------------------------------------------------------------------------
(* Response text.  A response is the string the f-strings build; it is     *)
(* kept as the sequence of its markup tokens, so that joining is           *)
(* concatenation and reading it back is a parse.                            *)

\* name="value"; lq / rq: whether the quote before / after the value is written
Attr(name, value) == [name |-> name, value |-> value, lq |-> TRUE, rq |-> TRUE]
\* name=value" : the opening quote is missing
AttrNoOpenQuote(name, value) == [name |-> name, value |-> value, lq |-> FALSE, rq |-> TRUE]

OpenTag(tag, attrs) == [k |-> "open", tag |-> tag, attrs |-> attrs, text |-> ""]
EmptyTag(tag, attrs) == [k |-> "empty", tag |-> tag, attrs |-> attrs, text |-> ""]
CloseTag(tag) == [k |-> "close", tag |-> tag, attrs |-> <<>>, text |-> ""]
Text(s) == [k |-> "text", tag |-> "", attrs |-> <<>>, text |-> s]

\* <tag attrs>text</tag>
TextElem(tag, attrs, s) == <<OpenTag(tag, attrs), Text(s), CloseTag(tag)>>

AttrsQuoted(attrs) == \A i \in 1..Len(attrs) : attrs[i].lq /\ attrs[i].rq

RECURSIVE Balanced(_, _)
\* the tokens nest properly under the open tags of stack, every attribute quoted
Balanced(tokens, stack) ==
    IF tokens = <<>> THEN stack = <<>>
    ELSE LET t == Head(tokens)
         IN CASE t.k = "open" ->
                    AttrsQuoted(t.attrs) /\ Balanced(Tail(tokens), <<t.tag>> \o stack)
              [] t.k = "empty" ->
                    AttrsQuoted(t.attrs) /\ Balanced(Tail(tokens), stack)
              [] t.k = "close" ->
                    /\ stack # <<>>
                    /\ Head(stack) = t.tag
                    /\ Balanced(Tail(tokens), Tail(stack))
              [] OTHER -> stack # <<>> /\ Balanced(Tail(tokens), stack)

\* ET.fromstring accepts the text: one root element, well formed
WellFormed(tokens) ==
    /\ tokens # <<>>
    /\ Head(tokens).k \in {"open", "empty"}
    /\ Balanced(tokens, <<>>)

RECURSIVE ElementsAt(_, _, _)
\* the start tokens of the elements found at nesting depth want
ElementsAt(tokens, depth, want) ==
    IF tokens = <<>> THEN <<>>
    ELSE LET t == Head(tokens)
             here == IF t.k \in {"open", "empty"} /\ depth = want THEN <<t>> ELSE <<>>
             next == CASE t.k = "open" -> depth + 1
                       [] t.k = "close" -> depth - 1
                       [] OTHER -> depth
         IN here \o ElementsAt(Tail(tokens), next, want)

\* the children of the root element of a response
Outcomes(tokens) == ElementsAt(tokens, 0, 1)

RECURSIVE TextOf(_)
\* the text tokens of a response, in order
TextOf(tokens) ==
    IF tokens = <<>> THEN <<>>
    ELSE (IF Head(tokens).k = "text" THEN <<Head(tokens).text>> ELSE <<>>)
         \o TextOf(Tail(tokens))

\* value of attribute name of a start token ("" when absent)
AttrValue(t, name) ==
    IF \E i \in 1..Len(t.attrs) : t.attrs[i].name = name
    THEN t.attrs[CHOOSE i \in 1..Len(t.attrs) : t.attrs[i].name = name].value
    ELSE ""

\* a handler's return value: a string, or None
Str(tokens) == [none |-> FALSE, xml |-> tokens]
PyNone == [none |-> TRUE, xml |-> <<>>]

RECURSIVE Join(_)
\* ''.join(results), every element a string
Join(results) ==
    IF results = <<>> THEN <<>> ELSE Head(results).xml \o Join(Tail(results))

\* f"<results>{''.join(results)}</results>"
Results(results) == <<OpenTag("results", <<>>)>> \o Join(results) \o <<CloseTag("results")>>

----------------------------------------------------------------------------
(* The store: tables accounts, symbols, positions, orders, executions *)

VARIABLES
    db,            \* the committed rows
    tx,            \* the rows as the transaction handler's connection sees them:
                   \* db and the writes it has not committed
    phase,         \* where _handle_client is: "idle" (no request), "transactions"
                   \* (an envelope is being handled), "reply" (the response is ready)
    request,       \* the last request: its root tag, its id=, how it was entered,
                   \* and its children when it is answered in one step
    account,       \* id= of the envelope being handled
    results,       \* the results list of _handle_transaction
    response,      \* the last response returned to a client
    last,          \* the last child handled: its input, what it saw, what it returned
    served,        \* number of requests received so far
    deposited,     \* the funds the store held at the start, plus the balances
                   \* inserted by <create>
    seeded,        \* per symbol: the shares the store held at the start, plus the
                   \* amounts added by <create>
    clients        \* the client threads that run at once, each on a connection of
                   \* its own: its order, its position in the handler, its locks

vars == <<db, tx, phase, request, account, results, response, last, served,
          deposited, seeded, clients>>

\* OrderRow with nothing left of the order
OrderRowNothingLeft(order_id, account_id, symbol, amount, limit_price, remaining, status, time) ==
    [order_id |-> order_id, account_id |-> account_id, symbol |-> symbol,
     amount |-> amount, limit_price |-> limit_price, remaining_amount |-> 0,
     status |-> status, time_created |-> time]

OrderRow(order_id, account_id, symbol, amount, limit_price, remaining, status, time) ==
    [order_id |-> order_id, account_id |-> account_id, symbol |-> symbol,
     amount |-> amount, limit_price |-> limit_price, remaining_amount |-> remaining,
     status |-> status, time_created |-> time]

ExecutionRow(order_id, shares, price, time) ==
    [order_id |-> order_id, shares |-> shares, price |-> price, time_executed |-> time]

IsBuy(o) == o.amount > 0
IsOpen(o) == o.status = "open"

\* an open buy and an open sell of one symbol that could trade with each other
Crossed(orders) ==
    \E b, s \in DOMAIN orders :
        /\ IsOpen(orders[b]) /\ IsOpen(orders[s])
        /\ IsBuy(orders[b]) /\ ~IsBuy(orders[s])
        /\ orders[b].symbol = orders[s].symbol
        /\ orders[b].limit_price >= orders[s].limit_price

\* the orders table an earlier deployment may have left: open, unfilled orders,
\* ids in order of arrival, the book not crossed
InitialBooks ==
    { book \in UNION { [1..n -> [account_id : RestingOwners, symbol : Symbols,
                                  amount : RestingAmounts, limit_price : Limits,
                                  time_created : Times]] : n \in 0..MaxBook } :
        /\ \A i, j \in DOMAIN book : i < j => book[i].time_created <= book[j].time_created
        /\ ~Crossed([i \in DOMAIN book |->
                        OrderRow(i, book[i].account_id, book[i].symbol, book[i].amount,
                                 book[i].limit_price, Abs(book[i].amount), "open",
                                 book[i].time_created)]) }

\* the store that holds book: its owners have an account, its sellers a position row
StoreOf(book) ==
    LET orders == [i \in DOMAIN book |->
                      OrderRow(i, book[i].account_id, book[i].symbol, book[i].amount,
                               book[i].limit_price, Abs(book[i].amount), "open",
                               book[i].time_created)]
        owners == { book[i].account_id : i \in DOMAIN book }
        held == { <<book[i].account_id, book[i].symbol>> :
                     i \in { j \in DOMAIN book : book[j].amount < 0 } }
    IN [accounts |-> [a \in owners |-> 0],
        symbols |-> { book[i].symbol : i \in DOMAIN book },
        positions |-> [p \in held |-> 0],
        orders |-> orders,
        executions |-> <<>>]

\* the position a store holds for an account on a symbol, 0 without a row
Held(store, account_id, sym) ==
    IF <<account_id, sym>> \in DOMAIN store.positions
    THEN store.positions[<<account_id, sym>>] ELSE 0

\* cash held: the balances, and what the open buy orders have set aside
TotalFunds(store) ==
    LET buys == { i \in DOMAIN store.orders :
                     IsOpen(store.orders[i]) /\ IsBuy(store.orders[i]) }
    IN SumOver(DOMAIN store.accounts, store.accounts)
       + SumOver(buys, [i \in buys |->
                          store.orders[i].remaining_amount * store.orders[i].limit_price])

\* shares of sym held: the positions, and what the open sell orders have set aside
TotalShares(store, sym) ==
    LET held == { p \in DOMAIN store.positions : p[2] = sym }
        sells == { i \in DOMAIN store.orders :
                      /\ IsOpen(store.orders[i]) /\ ~IsBuy(store.orders[i])
                      /\ store.orders[i].symbol = sym }
    IN SumOver(held, store.positions)
       + SumOver(sells, [i \in sells |-> store.orders[i].remaining_amount])

\* what _match_order did: whether it was called, the rows it fetched, whether it
\* priced a counter-order (reached line 356) and with what, the exception it raised
NoMatch ==
    [called |-> FALSE, matching_orders |-> <<>>, priced |-> FALSE, match_id |-> 0,
     order_time |-> 0, execution_price |-> 0, execution_amount |-> 0, raised |-> ""]

NoChild ==
    [op |-> "none", account_id |-> "", sym |-> "", amount |-> 0, limit |-> 0, id |-> 0,
     before |-> StoreOf(<<>>), committed |-> StoreOf(<<>>),
     result |-> PyNone, match |-> NoMatch]

Init ==
    /\ \E book \in InitialBooks :
          /\ db = StoreOf(book)
          /\ tx = StoreOf(book)
    /\ phase = "idle"
    /\ request = [tag |-> "", id |-> "", nchildren |-> 0, entry |-> "", children |-> <<>>]
    /\ account = ""
    /\ results = <<>>
    /\ response = <<>>
    /\ last = NoChild
    /\ served = 0
    /\ deposited = TotalFunds(db)
    /\ seeded = [s \in Symbols |-> TotalShares(db, s)]
    /\ clients = <<>>

----------------------------------------------------------------------------
(* _handle_create *)

AccountChild(id, balance) ==
    [tag |-> "account", id |-> id, balance |-> balance, sym |-> "", listed |-> <<>>]
\* listed: the <account id=...>AMOUNT</account> children, each [id, amount]
SymbolChild(sym, listed) ==
    [tag |-> "symbol", id |-> "", balance |-> 0, sym |-> sym, listed |-> listed]

\* CreateAccount as an upsert: an existing row takes the new balance
CreateAccountUpsert(st, child) ==
    [st EXCEPT !.db.accounts = [a \in DOMAIN @ \cup {child.id} |->
                                   IF a = child.id THEN child.balance ELSE @[a]],
               !.results = @ \o <<Str(<<EmptyTag("created", <<Attr("id", child.id)>>)>>)>>]

\* INSERT INTO accounts: a row, or IntegrityError on a duplicate id (lines 137-147)
CreateAccount(st, child) ==
    IF child.id \in DOMAIN st.db.accounts
    THEN [st EXCEPT !.results =
              @ \o <<Str(TextElem("error", <<Attr("id", child.id)>>,
                                  "Account already exists"))>>]
    ELSE [st EXCEPT !.db.accounts = @ @@ (child.id :> child.balance),
                    !.deposited = @ + child.balance,
                    !.results = @ \o <<Str(<<EmptyTag("created", <<Attr("id", child.id)>>)>>)>>]

\* SeedPosition with DO UPDATE SET amount = EXCLUDED.amount
SeedPositionOverwrite(st, sym, entry) ==
    LET key == <<entry.id, sym>>
        ids == <<Attr("sym", sym), Attr("id", entry.id)>>
    IN IF entry.id \notin DOMAIN st.db.accounts
       THEN [st EXCEPT !.results =
                 @ \o <<Str(TextElem("error", ids, "Account does not exist"))>>]
       ELSE [st EXCEPT
                 !.db.positions = [p \in DOMAIN @ \cup {key} |->
                                      IF p = key THEN entry.amount ELSE @[p]],
                 !.results = @ \o <<Str(<<EmptyTag("created", ids)>>)>>]

\* one <account id=...>AMOUNT</account> under <symbol>: additive upsert (lines 163-192)
SeedPosition(st, sym, entry) ==
    LET key == <<entry.id, sym>>
        ids == <<Attr("sym", sym), Attr("id", entry.id)>>
    IN IF entry.id \notin DOMAIN st.db.accounts
       THEN [st EXCEPT !.results =
                 @ \o <<Str(TextElem("error", ids, "Account does not exist"))>>]
       ELSE [st EXCEPT
                 !.db.positions =
                     IF key \in DOMAIN @
                     THEN [@ EXCEPT ![key] = @ + entry.amount]
                     ELSE @ @@ (key :> entry.amount),
                 !.seeded[sym] = @ + entry.amount,
                 !.results = @ \o <<Str(<<EmptyTag("created", ids)>>)>>]

RECURSIVE SeedPositionsUnknownUndoes(_, _, _)
\* SeedPositions where an account that does not exist undoes the positions
\* listed after it
SeedPositionsUnknownUndoes(st, sym, listed) ==
    IF listed = <<>> THEN st
    ELSE LET rest == SeedPositionsUnknownUndoes(SeedPosition(st, sym, Head(listed)),
                                                sym, Tail(listed))
         IN IF Head(listed).id \notin DOMAIN st.db.accounts
            THEN [rest EXCEPT !.db = st.db]
            ELSE rest

RECURSIVE SeedPositions(_, _, _)
\* for account_node in child (line 163)
SeedPositions(st, sym, listed) ==
    IF listed = <<>> THEN st
    ELSE SeedPositions(SeedPosition(st, sym, Head(listed)), sym, Tail(listed))

\* INSERT INTO symbols ... ON CONFLICT DO NOTHING, then the listed positions
CreateSymbol(st, child) ==
    SeedPositions([st EXCEPT !.db.symbols = @ \cup {child.sym}], child.sym, child.listed)

RECURSIVE CreateChildren(_, _)
\* for child in create_node (lines 122-192); every child commits on its own
CreateChildren(st, children) ==
    IF children = <<>> THEN st
    ELSE LET child == Head(children)
             next == IF child.tag = "account" THEN CreateAccount(st, child)
                     ELSE CreateSymbol(st, child)
         IN CreateChildren(next, Tail(children))

\* _handle_create(create_node): the store, the ledgers of what was provisioned, the response
HandleCreate(store, dep, seed, children) ==
    LET st == CreateChildren([db |-> store, deposited |-> dep, seeded |-> seed,
                              results |-> <<>>], children)
    IN [db |-> st.db, deposited |-> st.deposited, seeded |-> st.seeded,
        response |-> Results(st.results)]

Listings ==
    UNION { [1..n -> [id : AccountIds, amount : SeedAmounts]] : n \in 0..1 }

\* the <symbol> children that list several positions
LongListings ==
    UNION { [1..n -> [id : AccountIds, amount : SeedAmounts]] : n \in 2..MaxListed }

\* the <create> requests served: an account, a symbol, or an account and then a symbol
CreateRequests ==
    { <<AccountChild(a, b)>> : a \in AccountIds, b \in Balances }
    \cup { <<SymbolChild(s, l)>> : s \in Symbols, l \in Listings \cup LongListings }
    \cup { <<AccountChild(a, b), SymbolChild(s, l)>> :
               a \in AccountIds, b \in Balances, s \in Symbols, l \in Listings }

----------------------------------------------------------------------------
(* _match_order *)

\* Eligible without its price condition
EligibleAnyPrice(o, symbol, is_buy, limit) ==
    /\ o.symbol = symbol
    /\ o.status = "open"
    /\ IF is_buy THEN o.amount < 0 ELSE o.amount > 0

\* Eligible without its status condition
EligibleAnyStatus(o, symbol, is_buy, limit) ==
    /\ o.symbol = symbol
    /\ IF is_buy THEN o.amount < 0 /\ o.limit_price <= limit
                 ELSE o.amount > 0 /\ o.limit_price >= limit

\* WHERE of the book query (lines 323-341); is_buy is the incoming order's side
Eligible(o, symbol, is_buy, limit) ==
    /\ o.symbol = symbol
    /\ o.status = "open"
    /\ IF is_buy THEN o.amount < 0 /\ o.limit_price <= limit
                 ELSE o.amount > 0 /\ o.limit_price >= limit

\* Precedes by time_created alone
PrecedesByTime(a, b, is_buy) == a.time_created < b.time_created

\* ORDER BY of the book query: row a sorts strictly before row b
Precedes(a, b, is_buy) ==
    \/ IF is_buy THEN a.limit_price < b.limit_price ELSE a.limit_price > b.limit_price
    \/ a.limit_price = b.limit_price /\ a.time_created < b.time_created

\* what cur.fetchall() may return (line 342): the eligible rows, in an order that
\* obeys ORDER BY; rows that tie come in any order
MatchingOrders(orders, symbol, is_buy, limit) ==
    LET ids == { i \in DOMAIN orders : Eligible(orders[i], symbol, is_buy, limit) }
        n == Cardinality(ids)
    IN { f \in [1..n -> ids] :
            \A i, j \in 1..n :
                i < j => f[i] # f[j] /\ ~Precedes(orders[f[j]], orders[f[i]], is_buy) }

\* ExecutionPrice with the comparison turned round
ExecutionPriceOfLater(match_price, match_timestamp, order_time, limit) ==
    IF match_timestamp > order_time THEN match_price ELSE limit

\* line 355
ExecutionPrice(match_price, match_timestamp, order_time, limit) ==
    IF match_timestamp < order_time THEN match_price ELSE limit

\* line 356
ExecutionAmount(remaining_amount, match_remaining) == Min(remaining_amount, match_remaining)

\* _match_order(conn, order_id, symbol, amount, limit, account_id), given the rows
\* fetched.  It never returns: with no row to visit (or nothing left to fill) the
\* statement after the loop reads match_id, which was never bound (lines 438-441);
\* otherwise the first visit prices the counter-order (lines 348-356) and then
\* calls cur.execuet, which is no attribute of a cursor (line 358).  Lines 358-437
\* therefore write nothing.
MatchOrder(orders, order_id, amount, limit, matching_orders) ==
    LET remaining_amount == Abs(amount)
    IN IF matching_orders = <<>> \/ remaining_amount <= 0
       THEN [NoMatch EXCEPT !.called = TRUE, !.matching_orders = matching_orders,
                            !.raised = "UnboundLocalError"]
       ELSE LET m == orders[matching_orders[1]]
                order_time == orders[order_id].time_created
            IN [called |-> TRUE, matching_orders |-> matching_orders, priced |-> TRUE,
                match_id |-> m.order_id, order_time |-> order_time,
                execution_price |->
                    ExecutionPrice(m.limit_price, m.time_created, order_time, limit),
                execution_amount |-> ExecutionAmount(remaining_amount, m.remaining_amount),
                raised |-> "AttributeError"]

----------------------------------------------------------------------------
(* _handle_order *)

OrderAttrs(symbol, amount, limit) ==
    <<Attr("sym", symbol), Attr("amount", ToString(amount)), Attr("limit", ToString(limit))>>

\* line 272: limit={limit_str}" is written without its opening quote
InsufficientFundsAttrs(symbol, amount, limit) ==
    <<Attr("sym", symbol), Attr("amount", ToString(amount)),
      AttrNoOpenQuote("limit", ToString(limit))>>

ExceptionText(raised) ==
    IF raised = "AttributeError"
    THEN "Database error: 'psycopg2.extensions.cursor' object has no attribute 'execuet'"
    ELSE "Database error: local variable 'match_id' referenced before assignment"

\* what a child handler hands back: the committed rows, the connection's view,
\* the return value, what the matcher did
Outcome(store, view, result, match) ==
    [db |-> store, tx |-> view, result |-> result, match |-> match]

\* RETURNING order_id (lines 298, 303): an id no row of the table has
NewOrderId(orders) ==
    IF DOMAIN orders = {} THEN 1
    ELSE 1 + CHOOSE i \in DOMAIN orders : \A j \in DOMAIN orders : j <= i

\* the buy branch (lines 262-277): check and debit the balance; the INSERT, the
\* match and the commit all sit in the else branch, so control leaves the with
\* block and the function returns None, the debit uncommitted
BuyOrder(store, view, account_id, symbol, amount, limit) ==
    LET balance == view.accounts[account_id]
        limit_cost == amount * limit
    IN IF balance < limit_cost
       THEN Outcome(store, view,
                    Str(TextElem("error", InsufficientFundsAttrs(symbol, amount, limit),
                                 "Insufficient funds")),
                    NoMatch)
       ELSE Outcome(store, [view EXCEPT !.accounts[account_id] = @ - limit_cost],
                    PyNone, NoMatch)

\* the else branch (lines 278-308): check and debit the position, INSERT the order,
\* match; _match_order raises, so line 310 rolls the connection back
SellOrder(store, view, account_id, symbol, amount, limit, time, fetched) ==
    LET abs_amount == Abs(amount)
        key == <<account_id, symbol>>
    IN IF key \notin DOMAIN view.positions \/ view.positions[key] < abs_amount
       THEN Outcome(store, view,
                    Str(TextElem("error", OrderAttrs(symbol, amount, limit),
                                 "Insufficient shares")),
                    NoMatch)
       ELSE LET order_id == NewOrderId(view.orders)
                debited == [view EXCEPT !.positions[key] = @ - abs_amount]
                inserted ==
                    [debited EXCEPT !.orders =
                         @ @@ (order_id :> OrderRow(order_id, account_id, symbol, amount,
                                                    limit, abs_amount, "open", time))]
                match == MatchOrder(inserted.orders, order_id, amount, limit, fetched)
            IN \* except Exception: conn.rollback() (lines 310-313)
               Outcome(store, store,
                       Str(TextElem("error", OrderAttrs(symbol, amount, limit),
                                    ExceptionText(match.raised))),
                       match)

\* _handle_order(conn, account_id, order_node); the account row exists (preflight)
HandleOrder(store, view, account_id, symbol, amount, limit, time, fetched) ==
    LET is_buy == amount > 0
    IN IF is_buy
       THEN BuyOrder(store, view, account_id, symbol, amount, limit)
       ELSE SellOrder(store, view, account_id, symbol, amount, limit, time, fetched)

----------------------------------------------------------------------------
(* _handle_query, _handle_cancel *)

RECURSIVE FillsUpTo(_, _, _)
\* rows of executions of order id with shares > 0, ORDER BY time_executed, times 1..t
FillsUpTo(executions, id, t) ==
    IF t = 0 THEN <<>>
    ELSE FillsUpTo(executions, id, t - 1)
         \o SelectSeq(executions,
                      LAMBDA e : e.order_id = id /\ e.shares > 0 /\ e.time_executed = t)

Fills(executions, id) == FillsUpTo(executions, id, MaxTime)

RECURSIVE ExecutedTags(_, _)
\* one <executed .../> per row; quoted: whether price= has its opening quote
ExecutedTags(rows, quoted) ==
    IF rows = <<>> THEN <<>>
    ELSE LET e == Head(rows)
             price == IF quoted THEN Attr("price", ToString(e.price))
                      ELSE AttrNoOpenQuote("price", ToString(e.price))
         IN <<EmptyTag("executed", <<Attr("shares", ToString(e.shares)), price,
                                     Attr("time", ToString(e.time_executed))>>)>>
            \o ExecutedTags(Tail(rows), quoted)

\* time_executed of the latest zero-share row of order id (line 474)
CancelTime(executions, id) ==
    LET ts == { executions[i].time_executed :
                   i \in { j \in 1..Len(executions) :
                             executions[j].order_id = id /\ executions[j].shares = 0 } }
    IN IF ts = {} THEN 0 ELSE CHOOSE t \in ts : \A u \in ts : u <= t

\* HandleQuery that reports the order's id and nothing about it
HandleQueryBare(view, trans_id) ==
    Str(<<OpenTag("status", <<Attr("id", ToString(trans_id))>>), CloseTag("status")>>)

\* _handle_query(conn, account_id, query_node) (lines 443-501): reads only
HandleQuery(view, trans_id) ==
    IF trans_id \notin DOMAIN view.orders
    THEN Str(TextElem("error", <<Attr("id", ToString(trans_id))>>, "Order not found"))
    ELSE LET o == view.orders[trans_id]
             open == IF o.status = "open" /\ o.remaining_amount > 0
                     THEN <<EmptyTag("open",
                                     <<Attr("shares", ToString(o.remaining_amount))>>)>>
                     ELSE <<>>
             canceled ==
                 IF o.status = "canceled"
                 THEN <<EmptyTag("canceled",
                                 <<Attr("shares", ToString(o.remaining_amount)),
                                   Attr("time",
                                        ToString(CancelTime(view.executions, trans_id)))>>)>>
                 ELSE <<>>
         IN Str(<<OpenTag("status", <<Attr("id", ToString(trans_id))>>)>>
                \o open \o canceled
                \o ExecutedTags(Fills(view.executions, trans_id), FALSE)
                \o <<CloseTag("status")>>)

\* CancelRefund that returns cash for a sell as it does for a buy
CancelRefundCashOnly(view, o) ==
    [view EXCEPT !.accounts =
         IF o.account_id \in DOMAIN @
         THEN [@ EXCEPT ![o.account_id] = @ + o.remaining_amount * o.limit_price]
         ELSE @]

\* the refund of a cancel (lines 553-569): cash to the owner of a buy, shares to
\* the owner's position row of a sell (an UPDATE: no row, no refund)
CancelRefund(view, o) ==
    IF o.amount > 0
    THEN [view EXCEPT !.accounts =
              IF o.account_id \in DOMAIN @
              THEN [@ EXCEPT ![o.account_id] = @ + o.remaining_amount * o.limit_price]
              ELSE @]
    ELSE [view EXCEPT !.positions =
              IF <<o.account_id, o.symbol>> \in DOMAIN @
              THEN [@ EXCEPT ![<<o.account_id, o.symbol>>] = @ + o.remaining_amount]
              ELSE @]

\* CannotBeCanceled that refuses nothing
CannotBeCanceledNever(o) == FALSE

\* line 530
CannotBeCanceled(o) == o.status # "open" \/ o.remaining_amount <= 0

\* _handle_cancel(conn, account_id, cancel_node) (lines 504-597); now: datetime.now()
HandleCancel(store, view, trans_id, now) ==
    IF trans_id \notin DOMAIN view.orders
    THEN Outcome(store, view,
                 Str(TextElem("error", <<Attr("id", ToString(trans_id))>>,
                              "Order not found")),
                 NoMatch)
    ELSE LET o == view.orders[trans_id]
         IN IF CannotBeCanceled(o)
            THEN Outcome(store, view,
                         Str(TextElem("error", <<Attr("id", ToString(trans_id))>>,
                                      "Order cannot be canceled")),
                         NoMatch)
            ELSE LET marked ==
                         [view EXCEPT
                              !.orders[trans_id].status = "cancelled",
                              !.executions = Append(@, ExecutionRow(trans_id, 0, 0, now))]
                     refunded == CancelRefund(marked, o)
                     \* line 572 assigns over the wrapper opened at line 571
                     cancel_xml ==
                         <<EmptyTag("canceled",
                                    <<Attr("shares", ToString(o.remaining_amount)),
                                      Attr("time", ToString(now))>>)>>
                         \o ExecutedTags(Fills(refunded.executions, trans_id), TRUE)
                         \o <<CloseTag("canceled")>>
                 IN \* conn.commit() (line 591): everything the connection wrote
                    Outcome(refunded, refunded, Str(cancel_xml), NoMatch)

----------------------------------------------------------------------------
(* _handle_client and _process_xml: a request is read, dispatched on its     *)
(* root tag, and the response is sent.                                       *)

NoRequest == [tag |-> "", id |-> "", nchildren |-> 0, entry |-> "", children |-> <<>>]

\* "<results><error>text</error></results>"
ErrorResponse(text) ==
    <<OpenTag("results", <<>>)>> \o TextElem("error", <<>>, text) \o <<CloseTag("results")>>

\* lines 75-87: a request arrives
Receive ==
    /\ phase = "idle"
    /\ served < MaxRequests
    /\ served' = served + 1

\* root.tag == 'create' (lines 102-103)
ProcessXmlCreate ==
    /\ Receive
    /\ \E children \in CreateRequests :
          LET out == HandleCreate(db, deposited, seeded, children)
          IN /\ \A p \in DOMAIN out.db.positions :
                    Abs(out.db.positions[p]) <= MaxPosition
             /\ db' = out.db
             /\ tx' = out.db
             /\ deposited' = out.deposited
             /\ seeded' = out.seeded
             /\ response' = out.response
             /\ request' = [tag |-> "create", id |-> "", nchildren |-> Len(children),
                            entry |-> "_process_xml", children |-> children]
    /\ phase' = "reply"
    /\ UNCHANGED <<account, results, last, clients>>

\* root.tag == 'transaction': self._handle_transactions is no attribute of the
\* server, AttributeError, caught at line 113 (lines 104-105, 113-115)
ProcessXmlTransaction ==
    /\ Receive
    /\ \E id \in AccountIds, n \in 1..MaxChildren :
          request' = [tag |-> "transaction", id |-> id, nchildren |-> n,
                      entry |-> "_process_xml", children |-> <<>>]
    /\ response' = ErrorResponse("Internal server error")
    /\ phase' = "reply"
    /\ UNCHANGED <<db, tx, account, results, last, deposited, seeded, clients>>

\* any other root tag, <transactions> included (lines 106-108)
ProcessXmlOther ==
    /\ Receive
    /\ \E tag \in {"transactions", "order"}, id \in AccountIds, n \in 1..MaxChildren :
          request' = [tag |-> tag, id |-> id, nchildren |-> n, entry |-> "_process_xml",
                      children |-> <<>>]
    /\ response' = ErrorResponse("Unknown request type")
    /\ phase' = "reply"
    /\ UNCHANGED <<db, tx, account, results, last, deposited, seeded, clients>>

\* lines 89-96: the response is sent and the connection closed
SendResponse ==
    /\ phase = "reply"
    /\ phase' = "idle"
    /\ request' = NoRequest
    /\ response' = <<>>
    /\ results' = <<>>
    /\ account' = ""
    /\ last' = NoChild
    /\ UNCHANGED <<db, tx, served, deposited, seeded, clients>>

----------------------------------------------------------------------------
(* _handle_transaction.  _process_xml never calls it (lines 104-108); it is   *)
(* the handler the clients address with <transactions id=...>, and is driven *)
(* here with the parsed envelope, one step per child.                        *)

\* ids a <query> or <cancel> may name
TransIds == 1..MaxBook

OrderChild(sym, amount, limit) ==
    [tag |-> "order", sym |-> sym, amount |-> amount, limit |-> limit, id |-> 0]
IdChild(tag, id) ==
    [tag |-> tag, sym |-> "", amount |-> 0, limit |-> 0, id |-> id]

TransactionChildren ==
    { OrderChild(s, a, l) : s \in Symbols, a \in Amounts, l \in Limits }
    \cup { IdChild(t, i) : t \in {"query", "cancel"}, i \in TransIds }

\* the envelopes sent for an account that does not exist
Envelopes ==
    UNION { [1..n -> TransactionChildren] : n \in 1..MaxChildren }

\* InvalidAccountError without the child's attributes
InvalidAccountErrorBare(child) == Str(TextElem("error", <<>>, "Invalid account"))

\* lines 213-221: the error that answers one child of an invalid account
InvalidAccountError(child) ==
    IF child.tag = "order"
    THEN Str(TextElem("error", OrderAttrs(child.sym, child.amount, child.limit),
                      "Invalid account"))
    ELSE Str(TextElem("error", <<Attr("id", ToString(child.id))>>, "Invalid account"))

\* lines 209-223: the preflight finds no account row; putconn ends the transaction
InvalidAccount ==
    /\ Receive
    /\ \E id \in AccountIds \ DOMAIN tx.accounts, children \in Envelopes :
          /\ request' = [tag |-> "transactions", id |-> id, nchildren |-> Len(children),
                         entry |-> "_handle_transaction", children |-> children]
          /\ response' = Results([i \in 1..Len(children) |->
                                     InvalidAccountError(children[i])])
    /\ phase' = "reply"
    /\ UNCHANGED <<db, tx, account, results, last, deposited, seeded, clients>>

\* lines 204-211, 225: the preflight finds the account row
BeginTransaction ==
    /\ Receive
    /\ \E id \in DOMAIN tx.accounts :
          /\ account' = id
          /\ request' = [tag |-> "transactions", id |-> id, nchildren |-> 0,
                         entry |-> "_handle_transaction", children |-> <<>>]
    /\ phase' = "transactions"
    /\ results' = <<>>
    /\ UNCHANGED <<db, tx, response, last, deposited, seeded, clients>>

\* the bookkeeping every child step shares (lines 226-237)
Handled(child, out) ==
    /\ db' = out.db
    /\ tx' = out.tx
    /\ results' = Append(results, out.result)
    /\ request' = [request EXCEPT !.nchildren = @ + 1]
    /\ last' = [op |-> child.tag, account_id |-> account, sym |-> child.sym,
                amount |-> child.amount, limit |-> child.limit, id |-> child.id,
                before |-> tx, committed |-> db,
                result |-> out.result, match |-> out.match]
    /\ UNCHANGED <<phase, account, response, served, deposited, seeded, clients>>

\* child.tag == 'order' (lines 227-228); time: the time_created the row gets from
\* the table's default, which may tie with or fall before that of a row another
\* connection committed meanwhile
OrderStep ==
    /\ phase = "transactions"
    /\ Len(results) < MaxChildren
    /\ \E sym \in Symbols, amount \in Amounts, limit \in OrderLimits, time \in Times :
          \E fetched \in MatchingOrders(tx.orders, sym, amount > 0, limit) :
             Handled(OrderChild(sym, amount, limit),
                     HandleOrder(db, tx, account, sym, amount, limit, time, fetched))

\* child.tag == 'query' (lines 229-230)
QueryStep ==
    /\ phase = "transactions"
    /\ Len(results) < MaxChildren
    /\ \E id \in TransIds :
          Handled(IdChild("query", id), Outcome(db, tx, HandleQuery(tx, id), NoMatch))

\* child.tag == 'cancel' (lines 231-232)
CancelStep ==
    /\ phase = "transactions"
    /\ Len(results) < MaxChildren
    /\ \E id \in TransIds, now \in Times :
          Handled(IdChild("cancel", id), HandleCancel(db, tx, id, now))

\* lines 239-245: join the results; a None among them is a TypeError, caught at
\* line 240.  Either way the connection goes back to the pool, which rolls back
\* what it left uncommitted.
EndTransaction ==
    /\ phase = "transactions"
    /\ response' = IF \E i \in 1..Len(results) : results[i].none
                   THEN ErrorResponse("Internal server error")
                   ELSE Results(results)
    /\ tx' = db
    /\ phase' = "reply"
    /\ UNCHANGED <<db, request, account, results, last, served, deposited, seeded, clients>>

Next ==
    \/ ProcessXmlCreate
    \/ ProcessXmlTransaction
    \/ ProcessXmlOther
    \/ SendResponse
    \/ InvalidAccount
    \/ BeginTransaction
    \/ OrderStep
    \/ QueryStep
    \/ CancelStep
    \/ EndTransaction

Spec == Init /\ [][Next]_vars

----------------------------------------------------------------------------
(* Queries over a store that holds fills.  Nothing the handlers do commits a  *)
(* fill row (see MatchOrder), so the rows _handle_query reads at lines        *)
(* 481-493 are taken as left in the store, like the orders themselves.        *)

\* the fill rows left with book: each for one share of one of its orders, no
\* order filled beyond its amount, in the order the table happens to keep them
FillsOf(book) ==
    { fills \in UNION { [1..n -> [order_id : DOMAIN book, shares : {1},
                                   price : Limits, time_executed : Times]] :
                           n \in 1..MaxFills } :
        \A i \in DOMAIN book :
            Cardinality({ k \in DOMAIN fills : fills[k].order_id = i })
                <= Abs(book[i].amount) }

\* the store that holds book and fills: what was filled is off remaining_amount,
\* and an order with nothing left has status executed
StoreWithFills(book, fills) ==
    LET filled(i) == Cardinality({ k \in DOMAIN fills : fills[k].order_id = i })
        store == StoreOf(book)
    IN [store EXCEPT
           !.orders = [i \in DOMAIN @ |->
                          [@[i] EXCEPT
                              !.remaining_amount = @ - filled(i),
                              !.status = IF Abs(book[i].amount) = filled(i)
                                         THEN "executed" ELSE "open"]],
           !.executions = [k \in DOMAIN fills |->
                              ExecutionRow(fills[k].order_id, fills[k].shares,
                                           fills[k].price, fills[k].time_executed)]]

InitFilled ==
    /\ \E book \in InitialBooks :
          \E fills \in FillsOf(book) :
             /\ db = StoreWithFills(book, fills)
             /\ tx = StoreWithFills(book, fills)
    /\ phase = "idle"
    /\ request = NoRequest
    /\ account = ""
    /\ results = <<>>
    /\ response = <<>>
    /\ last = NoChild
    /\ served = 0
    /\ deposited = TotalFunds(db)
    /\ seeded = [s \in Symbols |-> TotalShares(db, s)]
    /\ clients = <<>>

\* envelopes of <query> children only
QueryNext ==
    \/ BeginTransaction
    \/ QueryStep
    \/ EndTransaction
    \/ SendResponse

QuerySpec == InitFilled /\ [][QueryNext]_vars

----------------------------------------------------------------------------
(* Client threads that run at once.  _handle_client runs in a thread per      *)
(* client (line 60) and every handler takes a connection of its own from the  *)
(* pool (line 206), so the envelopes of two clients interleave statement by   *)
(* statement; a SELECT ... FOR UPDATE or an UPDATE waits while another        *)
(* connection's open transaction holds a row it touches.  Each client here    *)
(* sends one envelope: an <order>, a <cancel>, or an <order> and then a       *)
(* <cancel>, all handled on the one connection of its envelope.               *)

MaxClients == 2
Clients == 1..MaxClients

\* amount= and limit= of the <order> children the clients send
ClientAmounts == {-1, 1}
ClientLimits == {2}

\* the store after <create> has given A and B an account and a share of X each
Provisioned(book) ==
    HandleCreate(StoreOf(book), 0, [s \in Symbols |-> 0],
                 <<AccountChild("A", 2), AccountChild("B", 2),
                   SymbolChild("X", <<[id |-> "A", amount |-> 1],
                                      [id |-> "B", amount |-> 1]>>)>>).db

\* the books the clients meet: orders of one share, entered at the same time
ClientBooks ==
    { book \in InitialBooks :
         \A i \in DOMAIN book : book[i].time_created = 1 /\ Abs(book[i].amount) = 1 }

\* a client about to have its envelope handled on a fresh connection; amount = 0:
\* it sends no <order>, id = 0: it sends no <cancel>
NewClient(store, account_id, sym, amount, limit, id) ==
    [account_id |-> account_id, sym |-> sym, amount |-> amount, limit |-> limit,
     id |-> id, pc |-> IF amount # 0 THEN "order" ELSE "cancel",
     view |-> store, locks |-> {}, order_id |-> 0,
     matching_orders |-> <<>>, result |-> PyNone, match |-> NoMatch,
     cancel_result |-> PyNone, refund |-> 0, aborted |-> "", response |-> <<>>]

\* the envelopes the clients send
ClientEnvelopes(store) ==
    { NewClient(store, a, s, n, l, i) :
         a \in DOMAIN store.accounts, s \in Symbols, n \in ClientAmounts,
         l \in ClientLimits, i \in {0} \cup TransIds }
    \cup { NewClient(store, a, s, 0, 0, i) :
              a \in DOMAIN store.accounts, s \in Symbols, i \in TransIds }

ConcurrentInit ==
    /\ \E book \in ClientBooks :
          /\ db = Provisioned(book)
          /\ tx = Provisioned(book)
    /\ clients \in [Clients -> ClientEnvelopes(db)]
    /\ phase = "idle"
    /\ request = NoRequest
    /\ account = ""
    /\ results = <<>>
    /\ response = <<>>
    /\ last = NoChild
    /\ served = 0
    /\ deposited = TotalFunds(db)
    /\ seeded = [s \in Symbols |-> TotalShares(db, s)]

\* FOR UPDATE with no row lock to wait for
LockedByOtherNever(lock, c) == FALSE

\* FOR UPDATE (lines 263, 281, 326, 337, 518) and UPDATE (lines 556, 561): the
\* row is locked by the open transaction of another connection
LockedByOther(lock, c) == \E d \in Clients \ {c} : lock \in clients[d].locks

\* the statements of one client leave the store and the other clients alone
ClientStep(c, k) ==
    /\ clients' = [clients EXCEPT ![c] = k]
    /\ UNCHANGED <<db, tx, phase, request, account, results, response, last, served,
                   deposited, seeded>>

\* where the handler of an envelope goes after its <order> (line 226)
AfterOrder(k) == IF k.id # 0 THEN "cancel" ELSE "returned"

\* the row _handle_order locks first: the balance of a buyer (line 263), the
\* position of a seller (lines 280-283)
ResourceLock(k) ==
    IF k.amount > 0 THEN <<"accounts", k.account_id>>
    ELSE <<"positions", k.account_id, k.sym>>

\* the row a cancel writes its refund to (lines 553-569)
RefundLock(o) ==
    IF o.amount > 0 THEN <<"accounts", o.account_id>>
    ELSE <<"positions", o.account_id, o.symbol>>

\* the row a lock names is in the view
RowExists(view, lock) ==
    CASE lock[1] = "accounts" -> lock[2] \in DOMAIN view.accounts
      [] lock[1] = "positions" -> <<lock[2], lock[3]>> \in DOMAIN view.positions
      [] OTHER -> lock[2] \in DOMAIN view.orders

\* the rows the next statement of client c locks
Wanted(c) ==
    LET k == clients[c]
        rows == CASE k.pc = "order" -> {ResourceLock(k)}
                  [] k.pc = "match" ->
                        { <<"orders", i>> : i \in
                            { j \in DOMAIN k.view.orders :
                                 Eligible(k.view.orders[j], k.sym, k.amount > 0, k.limit) } }
                  [] k.pc = "cancel" -> {<<"orders", k.id>>}
                  [] k.pc = "refund" -> {RefundLock(k.view.orders[k.id])}
                  [] OTHER -> {}
    IN { lock \in rows : RowExists(k.view, lock) }

\* the clients whose open transaction holds a row client c waits for
WaitsFor(c) ==
    { d \in Clients \ {c} : Wanted(c) \cap clients[d].locks # {} }

RECURSIVE WaitClosure(_)
\* the clients that S waits for, directly or through others
WaitClosure(S) ==
    LET T == S \cup UNION { WaitsFor(d) : d \in S }
    IN IF T = S THEN S ELSE WaitClosure(T)

\* a wait the database never ends by itself
InCycleNever(c) == FALSE

\* client c waits for a row of a client that waits, through others or not, for
\* a row of c: the database finds the cycle and fails the statement of one
InCycle(c) == c \in WaitClosure(WaitsFor(c))

\* _handle_order up to the call of _match_order (lines 262-303): lock and check
\* the balance or the position, debit it, and on the sell side INSERT the order
ClientOrder(c) ==
    LET k == clients[c]
        key == <<k.account_id, k.sym>>
        lock == ResourceLock(k)
        found == RowExists(k.view, lock)
        taken == IF found THEN k.locks \cup {lock} ELSE k.locks
    IN /\ k.pc = "order"
       /\ found => ~LockedByOther(lock, c)
       /\ IF k.amount > 0
          THEN LET out == BuyOrder(db, k.view, k.account_id, k.sym, k.amount, k.limit)
               IN ClientStep(c, [k EXCEPT !.view = out.tx, !.result = out.result,
                                          !.locks = taken, !.pc = AfterOrder(k)])
          ELSE IF ~found \/ k.view.positions[key] < Abs(k.amount)
          THEN ClientStep(c, [k EXCEPT
                  !.result = Str(TextElem("error", OrderAttrs(k.sym, k.amount, k.limit),
                                          "Insufficient shares")),
                  !.locks = taken, !.pc = AfterOrder(k)])
          ELSE \E time \in Times :
                  LET order_id == NewOrderId(db.orders)
                                  + Cardinality({ d \in Clients : clients[d].order_id # 0 })
                      row == OrderRow(order_id, k.account_id, k.sym, k.amount, k.limit,
                                      Abs(k.amount), "open", time)
                  IN ClientStep(c, [k EXCEPT
                         !.view = [@ EXCEPT !.positions[key] = @ - Abs(k.amount),
                                            !.orders = @ @@ (order_id :> row)],
                         !.order_id = order_id, !.locks = taken, !.pc = "match"])

\* the book query of _match_order (lines 321-346): it waits while another
\* connection holds one of its rows, then fetches them all and holds them
ClientSelect(c) ==
    LET k == clients[c]
    IN /\ k.pc = "match"
       /\ \E fetched \in MatchingOrders(k.view.orders, k.sym, k.amount > 0, k.limit) :
             /\ \A i \in 1..Len(fetched) : ~LockedByOther(<<"orders", fetched[i]>>, c)
             /\ ClientStep(c, [k EXCEPT
                    !.matching_orders = fetched,
                    !.locks = @ \cup { <<"orders", fetched[i]>> : i \in 1..Len(fetched) },
                    !.pc = "fetched"])

\* ClientRaise with a matcher that returns without a fill, so that line 307
\* commits the order as it was inserted
ClientCommitsUnmatched(c) ==
    LET k == clients[c]
    IN /\ k.pc = "fetched"
       /\ db' = k.view
       /\ clients' = [clients EXCEPT ![c] =
                         [k EXCEPT !.result = Str(<<EmptyTag("opened",
                                                       OrderAttrs(k.sym, k.amount, k.limit))>>),
                                   !.locks = {}, !.pc = AfterOrder(k)]]
       /\ UNCHANGED <<tx, phase, request, account, results, response, last, served,
                      deposited, seeded>>

\* the rest of _match_order raises (lines 348-358, 438-441) and _handle_order
\* rolls the connection back (lines 310-313), which gives up its locks
ClientRaise(c) ==
    LET k == clients[c]
        match == MatchOrder(k.view.orders, k.order_id, k.amount, k.limit, k.matching_orders)
    IN /\ k.pc = "fetched"
       /\ ClientStep(c, [k EXCEPT
              !.match = match,
              !.result = Str(TextElem("error", OrderAttrs(k.sym, k.amount, k.limit),
                                      ExceptionText(match.raised))),
              !.view = db, !.locks = {}, !.pc = AfterOrder(k)])

\* _handle_cancel up to its check (lines 513-531): lock the order row and read it
ClientCancel(c) ==
    LET k == clients[c]
        lock == <<"orders", k.id>>
        found == RowExists(k.view, lock)
        out == HandleCancel(db, k.view, k.id, 1)
    IN /\ k.pc = "cancel"
       /\ found => ~LockedByOther(lock, c)
       /\ IF ~found
          THEN ClientStep(c, [k EXCEPT !.cancel_result = out.result, !.pc = "returned"])
          ELSE IF CannotBeCanceled(k.view.orders[k.id])
          THEN ClientStep(c, [k EXCEPT !.cancel_result = out.result,
                                       !.locks = @ \cup {lock}, !.pc = "returned"])
          ELSE ClientStep(c, [k EXCEPT !.locks = @ \cup {lock}, !.pc = "refund"])

\* what another connection sees once new has been committed over old: the
\* committed rows, and over them what its own transaction has written
Rebase(view, old, new) ==
    [accounts |-> [a \in DOMAIN new.accounts |->
                      view.accounts[a] + new.accounts[a] - old.accounts[a]],
     symbols |-> new.symbols,
     positions |-> [p \in DOMAIN new.positions |->
                       view.positions[p] + new.positions[p] - old.positions[p]],
     orders |-> [i \in DOMAIN view.orders \cup DOMAIN new.orders |->
                    IF i \in DOMAIN new.orders THEN new.orders[i] ELSE view.orders[i]],
     executions |-> new.executions]

\* the rest of _handle_cancel (lines 533-592): mark the order, write the refund
\* to the owner's row, which waits while another connection holds that row, and
\* commit everything the connection has written
ClientRefund(c) ==
    LET k == clients[c]
        o == k.view.orders[k.id]
        lock == RefundLock(o)
    IN /\ k.pc = "refund"
       /\ RowExists(k.view, lock) => ~LockedByOther(lock, c)
       /\ \E now \in Times :
             LET out == HandleCancel(db, k.view, k.id, now)
             IN /\ db' = out.db
                /\ clients' =
                      [d \in Clients |->
                          IF d = c
                          THEN [k EXCEPT !.view = out.tx, !.locks = {},
                                         !.cancel_result = out.result,
                                         !.refund =
                                             IF o.amount > 0
                                             THEN out.tx.accounts[o.account_id]
                                                     - k.view.accounts[o.account_id]
                                             ELSE Held(out.tx, o.account_id, o.symbol)
                                                     - Held(k.view, o.account_id, o.symbol),
                                         !.pc = "returned"]
                          ELSE [clients[d] EXCEPT !.view = Rebase(@, db, out.db)]]
       /\ UNCHANGED <<tx, phase, request, account, results, response, last, served,
                      deposited, seeded>>

\* the database fails the waiting statement of a client in a cycle of waits;
\* the handler's except clause rolls the connection back and answers the child
\* with the error (lines 310-313, 593-596)
ClientDeadlock(c) ==
    LET k == clients[c]
        text == "Database error: deadlock detected"
    IN /\ InCycle(c)
       /\ IF k.pc \in {"order", "match"}
          THEN ClientStep(c, [k EXCEPT
                  !.result = Str(TextElem("error", OrderAttrs(k.sym, k.amount, k.limit),
                                          text)),
                  !.aborted = "order", !.view = db, !.locks = {}, !.pc = AfterOrder(k)])
          ELSE ClientStep(c, [k EXCEPT
                  !.cancel_result = Str(TextElem("error", <<Attr("id", ToString(k.id))>>,
                                                 text)),
                  !.aborted = "cancel", !.view = db, !.locks = {}, !.pc = "returned"])

\* lines 237-245: the results are joined and the connection goes back to the
\* pool, which rolls back what the handler left open
ClientClose(c) ==
    LET k == clients[c]
        answers == (IF k.amount # 0 THEN <<k.result>> ELSE <<>>)
                   \o (IF k.id # 0 THEN <<k.cancel_result>> ELSE <<>>)
    IN /\ k.pc = "returned"
       /\ ClientStep(c, [k EXCEPT
              !.response = IF \E i \in 1..Len(answers) : answers[i].none
                           THEN ErrorResponse("Internal server error")
                           ELSE Results(answers),
              !.view = db, !.locks = {}, !.pc = "closed"])

ConcurrentNext ==
    \/ \E c \in Clients : ClientOrder(c)
    \/ \E c \in Clients : ClientSelect(c)
    \/ \E c \in Clients : ClientRaise(c)
    \/ \E c \in Clients : ClientCancel(c)
    \/ \E c \in Clients : ClientRefund(c)
    \/ \E c \in Clients : ClientDeadlock(c)
    \/ \E c \in Clients : ClientClose(c)

ConcurrentSpec == ConcurrentInit /\ [][ConcurrentNext]_vars

\* the next statement of client c, or the failure of the one it waits in
ClientNext(c) ==
    \/ ClientOrder(c)
    \/ ClientSelect(c)
    \/ ClientRaise(c)
    \/ ClientCancel(c)
    \/ ClientRefund(c)
    \/ ClientDeadlock(c)
    \/ ClientClose(c)

\* every thread is scheduled: a statement that can run does run, and a
\* statement that waits in a cycle is failed by the database's deadlock check
ConcurrentFairSpec == ConcurrentSpec /\ \A c \in Clients : WF_vars(ClientNext(c))

----------------------------------------------------------------------------
(* Properties *)

\* the last child was an <order> that passes the resource check of its side
OrderPassesCheck ==
    /\ last.op = "order"
    /\ IF last.amount > 0
       THEN last.before.accounts[last.account_id] >= last.amount * last.limit
       ELSE /\ <<last.account_id, last.sym>> \in DOMAIN last.before.positions
            /\ last.before.positions[<<last.account_id, last.sym>>] >= Abs(last.amount)

\* the last child was an <order> that fails the resource check of its side
OrderFailsCheck == last.op = "order" /\ ~OrderPassesCheck

\* the element a handler returned is <tag sym amount limit ...> for the last child
MirrorsOrder(result, tag) ==
    /\ ~result.none
    /\ WellFormed(result.xml)
    /\ Head(result.xml).tag = tag
    /\ AttrValue(Head(result.xml), "sym") = last.sym
    /\ AttrValue(Head(result.xml), "amount") = ToString(last.amount)
    /\ AttrValue(Head(result.xml), "limit") = ToString(last.limit)

\* the counter-order the matcher priced, as it stood before the order came in
PricedOrder == last.before.orders[last.match.match_id]

\* C1: in every committed state, the balances plus the cash set aside by the open
\* buy orders equal what the store was provisioned with (at the start and through
\* <create>); order entry, matching and cancel leave that total alone.
C1_FundConservation == TotalFunds(db) = deposited

\* C2: in every committed state and for every symbol, the positions plus the
\* shares set aside by the open sell orders equal what was seeded (at the start
\* and through <create>); order entry, matching and cancel leave that total alone.
C2_ShareConservation == \A sym \in Symbols : TotalShares(db, sym) = seeded[sym]

\* C2 witness: after a buy <order> that returned nothing, a <cancel> of an open
\* sell order has committed and its shares are back in the owner's position
C2_SellCancelCommitted ==
    /\ last.op = "cancel"
    /\ Len(results) = 2
    /\ results[1].none
    /\ last.id \in DOMAIN last.before.orders
    /\ last.before.orders[last.id].status = "open"
    /\ last.before.orders[last.id].amount < 0
    /\ db.orders[last.id].status = "cancelled"
    /\ LET o == last.before.orders[last.id]
           key == <<o.account_id, o.symbol>>
       IN db.positions[key] = last.committed.positions[key] + o.remaining_amount

\* C3: in every committed state every balance, every position and every order's
\* remaining_amount is >= 0.
C3_NonNegative ==
    /\ \A a \in DOMAIN db.accounts : db.accounts[a] >= 0
    /\ \A p \in DOMAIN db.positions : db.positions[p] >= 0
    /\ \A i \in DOMAIN db.orders : db.orders[i].remaining_amount >= 0

\* C4: a request whose root is <transactions> gets a <results> with one outcome
\* per child, and "Unknown request type" answers only a root that is neither
\* <create> nor <transactions>.
C4_Dispatch ==
    (phase = "reply" /\ request.entry = "_process_xml")
        => /\ request.tag = "transactions"
                => /\ WellFormed(response)
                   /\ Head(response).tag = "results"
                   /\ Len(Outcomes(response)) = request.nchildren
                   /\ TextOf(response) # <<"Unknown request type">>
           /\ TextOf(response) = <<"Unknown request type">>
                => request.tag \notin {"create", "transactions"}

\* C5: an <order> that passes the resource check is answered with <opened>
\* mirroring sym, amount and limit; the submitter is debited (a buy: the balance
\* by |amount| * limit, a sell: the position by |amount|), and an open order with
\* remaining_amount = |amount| is committed.
C5_OrderAccepted ==
    OrderPassesCheck
        => /\ MirrorsOrder(last.result, "opened")
           /\ \E i \in DOMAIN db.orders \ DOMAIN last.committed.orders :
                 /\ db.orders[i].account_id = last.account_id
                 /\ db.orders[i].amount = last.amount
                 /\ db.orders[i].limit_price = last.limit
                 /\ db.orders[i].remaining_amount = Abs(last.amount)
                 /\ db.orders[i].status = "open"
           /\ IF last.amount > 0
              THEN db.accounts[last.account_id]
                       = last.before.accounts[last.account_id] - last.amount * last.limit
              ELSE db.positions[<<last.account_id, last.sym>>]
                       = last.before.positions[<<last.account_id, last.sym>>]
                         - Abs(last.amount)

\* C6: an <order> that fails the resource check is answered with an <error>
\* mirroring sym, amount and limit, with the text "Insufficient funds" (a buy) or
\* "Insufficient shares" (a sell); no order is created and no balance or position
\* changes.
C6_InsufficientResources ==
    OrderFailsCheck
        => /\ MirrorsOrder(last.result, "error")
           /\ TextOf(last.result.xml)
                  = <<IF last.amount > 0 THEN "Insufficient funds"
                      ELSE "Insufficient shares">>
           /\ tx = last.before
           /\ db = last.committed

C10_SellerCredited ==
    LET seller == IF last.amount < 0 THEN last.account_id ELSE PricedOrder.account_id
        buyer == IF last.amount < 0 THEN PricedOrder.account_id ELSE last.account_id
        credit == last.match.execution_amount * last.match.execution_price
    IN (last.match.priced /\ seller # buyer)
           => /\ tx.accounts[seller] = last.before.accounts[seller] + credit
              /\ \A a \in DOMAIN tx.accounts \ {seller, buyer} :
                    tx.accounts[a] = last.before.accounts[a]

\* the owners of the two sides of the priced pair
FillSeller == IF last.amount < 0 THEN last.account_id ELSE PricedOrder.account_id
FillBuyer == IF last.amount < 0 THEN PricedOrder.account_id ELSE last.account_id

\* C11: when an order of one account is filled against the order of another, the
\* position of the account that owns the buy order grows by the execution
\* quantity on the traded symbol, and the seller's position does not grow.
C11_ShareDelivery ==
    (last.match.priced /\ FillSeller # FillBuyer)
        => /\ Held(tx, FillBuyer, last.sym)
                  = Held(last.before, FillBuyer, last.sym) + last.match.execution_amount
           /\ Held(tx, FillSeller, last.sym) <= Held(last.before, FillSeller, last.sym)

\* C12: when an order of one account is filled against the order of another and
\* the buy order's limit exceeds the execution price, the owner of the buy order
\* is credited quantity * (limit - execution price).
C12_BuyerRefund ==
    LET buy_limit == IF last.amount > 0 THEN last.limit ELSE PricedOrder.limit_price
        refund == last.match.execution_amount * (buy_limit - last.match.execution_price)
    IN (last.match.priced /\ FillSeller # FillBuyer
            /\ buy_limit > last.match.execution_price)
           => tx.accounts[FillBuyer] = last.before.accounts[FillBuyer] + refund

\* C13: in every committed state an order has status executed exactly when its
\* remaining_amount is 0 and it was not cancelled; and an incoming order that the
\* matcher prices for its whole quantity is committed with status executed, as is
\* a counter-order priced for all it has left.
C13_StatusConsistency ==
    /\ \A i \in DOMAIN db.orders :
          db.orders[i].status = "executed"
              <=> (db.orders[i].remaining_amount = 0 /\ db.orders[i].status # "cancelled")
    /\ (last.match.priced /\ last.match.execution_amount = Abs(last.amount))
          => \E i \in DOMAIN db.orders \ DOMAIN last.committed.orders :
                /\ db.orders[i].account_id = last.account_id
                /\ db.orders[i].status = "executed"
    /\ (last.match.priced
            /\ last.match.execution_amount = PricedOrder.remaining_amount)
          => db.orders[last.match.match_id].status = "executed"

\* the orders the matcher fetched for the last child
Fetched(child) ==
    { child.match.matching_orders[k] : k \in 1..Len(child.match.matching_orders) }

\* C14: once the cancel of an order has committed, every later step leaves its
\* status and its remaining_amount as they are, adds no fill to it, and no later
\* order has it among the counter-orders the matcher takes up.
C14_CancelledIsTerminal ==
    [][\A i \in DOMAIN db.orders :
          db.orders[i].status = "cancelled"
              => /\ i \in DOMAIN db'.orders
                 /\ db'.orders[i].status = "cancelled"
                 /\ db'.orders[i].remaining_amount = db.orders[i].remaining_amount
                 /\ Fills(db'.executions, i) = Fills(db.executions, i)
                 /\ last' # last => i \notin Fetched(last')]_vars

\* C14 witness: a sell passed its check while a cancelled buy that meets its
\* limit was in the book, and the matcher ran without fetching that buy
C14_CancelledBuyPassedOver ==
    /\ OrderPassesCheck
    /\ last.amount < 0
    /\ last.match.called
    /\ \E i \in DOMAIN last.committed.orders :
          /\ last.committed.orders[i].status = "cancelled"
          /\ db.orders[i] = last.committed.orders[i]
          /\ last.committed.orders[i].symbol = last.sym
          /\ last.committed.orders[i].amount > 0
          /\ last.committed.orders[i].limit_price >= last.limit
          /\ i \notin Fetched(last)

CancelOfOpenOrder ==
    /\ last.op = "cancel"
    /\ last.id \in DOMAIN last.before.orders
    /\ last.before.orders[last.id].status = "open"
    /\ last.before.orders[last.id].remaining_amount > 0

\* the order the last <cancel> named, as it stood before the cancel
CancelledOrder == last.before.orders[last.id]

\* C16: a <cancel> of an open order with remaining R > 0 leaves the order
\* cancelled and commits, and of all balances and positions it changes just one:
\* the balance of the order's owner by + R * limit_price for a buy, the owner's
\* position on the symbol by + R for a sell, whoever asked for the cancel.
C16_CancelRefund ==
    CancelOfOpenOrder
        => LET o == CancelledOrder
               key == <<o.account_id, o.symbol>>
           IN /\ tx.orders[last.id].status = "cancelled"
              /\ tx.accounts =
                    [a \in DOMAIN last.before.accounts |->
                        IF a = o.account_id /\ o.amount > 0
                        THEN last.before.accounts[a] + o.remaining_amount * o.limit_price
                        ELSE last.before.accounts[a]]
              /\ tx.positions =
                    [p \in DOMAIN last.before.positions |->
                        IF p = key /\ o.amount < 0
                        THEN last.before.positions[p] + o.remaining_amount
                        ELSE last.before.positions[p]]
              /\ db = tx

\* C16 witness: account A cancelled an open buy of account B and B's committed
\* balance grew by what the order had set aside
C16_OwnerRefundedNotRequester ==
    /\ CancelOfOpenOrder
    /\ last.account_id = "A"
    /\ CancelledOrder.account_id = "B"
    /\ CancelledOrder.amount > 0
    /\ db.accounts["B"] = last.committed.accounts["B"]
                             + CancelledOrder.remaining_amount * CancelledOrder.limit_price
    /\ db.accounts["A"] = last.committed.accounts["A"]

\* C17: a <cancel> whose target does not exist, is not open (cancelled or
\* executed) or has nothing left is answered with an <error id=...> and changes no
\* order, execution, balance or position, committed or pending on the connection;
\* a second cancel of an order refunds nothing.
C17_CancelIdempotent ==
    (phase = "transactions" /\ last.op = "cancel" /\ ~CancelOfOpenOrder)
        => /\ ~last.result.none
           /\ WellFormed(last.result.xml)
           /\ Head(last.result.xml).tag = "error"
           /\ AttrValue(Head(last.result.xml), "id") = ToString(last.id)
           /\ tx = last.before
           /\ db = last.committed

\* C17 witness: a <cancel> named an order that an earlier cancel had already
\* cancelled and refunded
C17_SecondCancel ==
    /\ phase = "transactions"
    /\ last.op = "cancel"
    /\ last.id \in DOMAIN last.before.orders
    /\ last.before.orders[last.id].status = "cancelled"
    /\ \E k \in 1..Len(last.before.executions) :
          /\ last.before.executions[k].order_id = last.id
          /\ last.before.executions[k].shares = 0
    /\ TextOf(last.result.xml) = <<"Order cannot be canceled">>

\* C18: a <cancel> of an open order with remaining R is answered with one
\* well-formed <canceled id=ORDID> element whose first child is <canceled
\* shares=R .../> and whose other children are the <executed> entries of the
\* order's fills.
C18_CancelResponse ==
    CancelOfOpenOrder
        => LET xml == last.result.xml
               inner == ElementsAt(xml, 0, 1)
           IN /\ ~last.result.none
              /\ WellFormed(xml)
              /\ Head(xml).k = "open"
              /\ Head(xml).tag = "canceled"
              /\ AttrValue(Head(xml), "id") = ToString(last.id)
              /\ Len(inner) = 1 + Len(Fills(last.before.executions, last.id))
              /\ inner[1].tag = "canceled"
              /\ AttrValue(inner[1], "shares")
                     = ToString(CancelledOrder.remaining_amount)
              /\ \A k \in 2..Len(inner) : inner[k].tag = "executed"

\* the order the last <query> named, and the children of the element returned
QueriedOrder == last.before.orders[last.id]
StatusChildren == ElementsAt(last.result.xml, 0, 1)
StatusChildrenTagged(tag) == SelectSeq(StatusChildren, LAMBDA t : t.tag = tag)

\* the last child was a <query> of an order that exists
QueryOfOrder == last.op = "query" /\ last.id \in DOMAIN last.before.orders

\* C19: a <query> of an order that is open, unfilled and not cancelled returns a
\* well-formed <status id=...> whose only child is <open shares=R/> with
\* R = |amount|; and for every order queried, an <open shares=R/> child appears,
\* once and with R the remaining_amount, exactly when the status is open and the
\* remaining_amount is > 0.
C19_QueryOpen ==
    QueryOfOrder
        => LET o == QueriedOrder
               opens == StatusChildrenTagged("open")
           IN /\ ~last.result.none
              /\ Head(last.result.xml).tag = "status"
              /\ AttrValue(Head(last.result.xml), "id") = ToString(last.id)
              /\ (opens # <<>>) <=> (o.status = "open" /\ o.remaining_amount > 0)
              /\ opens # <<>>
                    => /\ Len(opens) = 1
                       /\ AttrValue(opens[1], "shares") = ToString(o.remaining_amount)
              /\ (o.status = "open" /\ o.remaining_amount = Abs(o.amount)
                      /\ Fills(last.before.executions, last.id) = <<>>)
                    => /\ WellFormed(last.result.xml)
                       /\ Len(StatusChildren) = 1
                       /\ StatusChildren[1].tag = "open"
                       /\ AttrValue(StatusChildren[1], "shares") = ToString(Abs(o.amount))

\* C19 witness: an open order for 2 was queried and reported open for 2
C19_OpenOrderReported ==
    /\ QueryOfOrder
    /\ QueriedOrder.status = "open"
    /\ Abs(QueriedOrder.amount) = 2
    /\ Len(StatusChildren) = 1
    /\ StatusChildren[1].tag = "open"
    /\ AttrValue(StatusChildren[1], "shares") = "2"

\* C20: a <query> of an order whose cancel succeeded returns a status with a
\* cancelled element that carries the amount left unfilled at the cancel and the
\* time of the cancel, and with no <open> element.
C20_QueryAfterCancel ==
    (QueryOfOrder /\ QueriedOrder.status = "cancelled")
        => /\ StatusChildrenTagged("open") = <<>>
           /\ \E k \in 1..Len(StatusChildren) :
                 /\ StatusChildren[k].tag \in {"canceled", "cancelled"}
                 /\ AttrValue(StatusChildren[k], "shares")
                        = ToString(QueriedOrder.remaining_amount)
                 /\ AttrValue(StatusChildren[k], "time")
                        = ToString(CancelTime(last.before.executions, last.id))

\* C21: a <query> of an order returns a well-formed <status> with one
\* <executed shares price time/> child per fill of the order, in time order, each
\* with the shares, the price and the time of its fill.
C21_QueryFills ==
    QueryOfOrder
        => LET fills == Fills(last.before.executions, last.id)
               executed == StatusChildrenTagged("executed")
           IN /\ WellFormed(last.result.xml)
              /\ Len(executed) = Len(fills)
              /\ \A k \in 1..Len(fills) :
                    /\ AttrValue(executed[k], "shares") = ToString(fills[k].shares)
                    /\ AttrValue(executed[k], "price") = ToString(fills[k].price)
                    /\ AttrValue(executed[k], "time") = ToString(fills[k].time_executed)
              /\ \A j, k \in 1..Len(fills) :
                    j < k => fills[j].time_executed <= fills[k].time_executed

\* the element a handler returned for an <order> is <opened ...>
Opened(result) == ~result.none /\ Head(result.xml).tag = "opened"

\* C22: when the envelope of an existing account has been handled, every child
\* has its own result, and the response is not the single error that stands for
\* the whole envelope.
C22_ChildrenIndependent ==
    (phase = "reply" /\ results # <<>>)
        => /\ \A i \in 1..Len(results) : ~results[i].none
           /\ Head(response).tag = "results"
           /\ TextOf(response) # <<"Internal server error">>

\* C23: when an <order> has not been answered with <opened>, the next child
\* handled on the connection commits none of its writes: the submitter's
\* committed balance and position are not lowered and no order row is added.
C23_OrderAtomicity ==
    [][(phase = "transactions" /\ last.op = "order" /\ ~Opened(last.result))
          => /\ db'.accounts[last.account_id] >= db.accounts[last.account_id]
             /\ Held(db', last.account_id, last.sym) >= Held(db, last.account_id, last.sym)
             /\ DOMAIN db'.orders = DOMAIN db.orders]_vars

\* the attributes that identify a child of an envelope mirrored on element t
MirrorsChild(t, child) ==
    IF child.tag = "order"
    THEN /\ AttrValue(t, "sym") = child.sym
         /\ AttrValue(t, "amount") = ToString(child.amount)
         /\ AttrValue(t, "limit") = ToString(child.limit)
    ELSE AttrValue(t, "id") = ToString(child.id)

\* C24: an envelope whose id names no account is answered with a well-formed
\* <results> of one <error>Invalid account</error> per child, in order, each with
\* the attributes that identify its child (sym, amount, limit of an order, id of a
\* query or a cancel), and the step changes nothing in the store.
C24_InvalidAccountPreflight ==
    [][(phase = "idle" /\ request'.entry = "_handle_transaction"
           /\ request'.id \notin DOMAIN db.accounts)
          => LET children == request'.children
                 out == Outcomes(response')
             IN /\ WellFormed(response')
                /\ Head(response').tag = "results"
                /\ Len(out) = Len(children)
                /\ \A i \in 1..Len(children) :
                      out[i].tag = "error" /\ MirrorsChild(out[i], children[i])
                /\ TextOf(response') = [i \in 1..Len(children) |-> "Invalid account"]
                /\ db' = db
                /\ tx' = tx]_vars

\* C24 witness: an envelope of an <order> and a <cancel> for an account that does
\* not exist has been answered with two errors
C24_UnknownAccountAnswered ==
    /\ phase = "reply"
    /\ request.entry = "_handle_transaction"
    /\ request.id \notin DOMAIN db.accounts
    /\ Len(request.children) = 2
    /\ request.children[1].tag = "order"
    /\ request.children[2].tag = "cancel"
    /\ Len(Outcomes(response)) = 2
    /\ TextOf(response) = <<"Invalid account", "Invalid account">>

\* the shares the fill rows of store give order id
FilledShares(store, id) ==
    LET rows == { k \in DOMAIN store.executions : store.executions[k].order_id = id }
    IN SumOver(rows, [k \in rows |-> store.executions[k].shares])

\* client c holds the rows it fetched for its match
HoldsFetched(c) == clients[c].pc = "fetched" /\ clients[c].matching_orders # <<>>

ClientPassesCheck(c) ==
    LET k == clients[c]
    IN IF k.amount > 0
       THEN db.accounts[k.account_id] >= k.amount * k.limit
       ELSE /\ <<k.account_id, k.sym>> \in DOMAIN db.positions
            /\ db.positions[<<k.account_id, k.sym>>] >= Abs(k.amount)

\* the clients whose sell the buy of client b crosses
CrossedSellers(b) ==
    { s \in Clients : /\ clients[s].amount < 0
                      /\ clients[s].sym = clients[b].sym
                      /\ clients[s].limit <= clients[b].limit
                      /\ ClientPassesCheck(s) }

\* C26: when sells are sent in parallel with one buy that crosses them all, into a
\* store with no other order, then once every client has been answered the buy
\* has been filled min(buy quantity, sum of the sell quantities) shares.
C26_NoLostFill ==
    (/\ \A c \in Clients : clients[c].pc = "closed"
     /\ DOMAIN db.orders \subseteq { clients[c].order_id : c \in Clients })
       => \A b \in Clients :
             (clients[b].amount > 0 /\ ClientPassesCheck(b) /\ CrossedSellers(b) # {})
                => LET sellers == CrossedSellers(b)
                       offered == SumOver(sellers,
                                          [s \in sellers |-> Abs(clients[s].amount)])
                   IN FilledShares(db, clients[b].order_id)
                         = Min(clients[b].amount, offered)

RECURSIVE OutcomeTexts(_, _)
\* the text of each child of the root element of a response ("" when it has none)
OutcomeTexts(tokens, depth) ==
    IF tokens = <<>> THEN <<>>
    ELSE LET t == Head(tokens)
             rest == Tail(tokens)
         IN CASE t.k = "open" ->
                    (IF depth = 1
                     THEN <<IF rest # <<>> /\ Head(rest).k = "text"
                            THEN Head(rest).text ELSE "">>
                     ELSE <<>>) \o OutcomeTexts(rest, depth + 1)
              [] t.k = "empty" ->
                    (IF depth = 1 THEN <<"">> ELSE <<>>) \o OutcomeTexts(rest, depth)
              [] t.k = "close" -> OutcomeTexts(rest, depth - 1)
              [] OTHER -> OutcomeTexts(rest, depth)

\* this step answers a <create> request
CreateServed == phase = "idle" /\ request'.tag = "create"

\* the results the children before child i of a <create> account for
ResultsBefore(children, i) ==
    SumOver(1..(i - 1), [j \in 1..(i - 1) |->
                            IF children[j].tag = "account" THEN 1
                            ELSE Len(children[j].listed)])

\* account id exists when child i of a <create> is handled
ExistsAt(children, i, id) ==
    \/ id \in DOMAIN db.accounts
    \/ \E j \in 1..(i - 1) : children[j].tag = "account" /\ children[j].id = id

\* the listed positions of a <create>: <<i, k>> is entry k of <symbol> child i
ListedEntries(children) ==
    { e \in (1..Len(children)) \X (1..MaxListed) :
         children[e[1]].tag = "symbol" /\ e[2] <= Len(children[e[1]].listed) }

\* what a <create> lists for id on sym under accounts that exist when listed
ListedFor(children, id, sym) ==
    LET entries == { e \in ListedEntries(children) :
                        /\ children[e[1]].sym = sym
                        /\ children[e[1]].listed[e[2]].id = id
                        /\ ExistsAt(children, e[1], id) }
    IN SumOver(entries, [e \in entries |-> children[e[1]].listed[e[2]].amount])

\* C27: an <account> child whose id already exists leaves the account's balance
\* as it was and is answered with an error, not <created>; one whose id is fresh
\* inserts the account and is answered <created id=.../>.
C27_DuplicateAccount ==
    [][CreateServed
          => LET children == request'.children
                 out == Outcomes(response')
             IN \A i \in 1..Len(children) :
                   children[i].tag = "account"
                      => LET id == children[i].id
                             answer == out[ResultsBefore(children, i) + 1]
                         IN /\ AttrValue(answer, "id") = id
                            /\ IF ExistsAt(children, i, id)
                               THEN /\ answer.tag # "created"
                                    /\ id \in DOMAIN db.accounts
                                          => db'.accounts[id] = db.accounts[id]
                               ELSE /\ answer.tag = "created"
                                    /\ id \in DOMAIN db'.accounts]_vars

\* C27 witness: a <create> for an account that exists, with another balance, has
\* been answered "Account already exists" and the balance is not the one sent
C27_DuplicateAnswered ==
    /\ phase = "reply"
    /\ request.tag = "create"
    /\ request.children[1].tag = "account"
    /\ Outcomes(response)[1].tag = "error"
    /\ OutcomeTexts(response, 0)[1] = "Account already exists"
    /\ request.children[1].id \in DOMAIN db.accounts
    /\ db.accounts[request.children[1].id] # request.children[1].balance

\* C28: an <account> child with a negative balance is answered
\* <error>Invalid balance value</error> and creates no account, a listed position
\* with a negative amount is answered with an error and changes no position, and
\* no <create> brings a balance or a position below zero.
C28_NegativeProvisioningRejected ==
    [][CreateServed
          => LET children == request'.children
                 out == Outcomes(response')
                 texts == OutcomeTexts(response', 0)
             IN /\ \A i \in 1..Len(children) :
                      (children[i].tag = "account" /\ children[i].balance < 0)
                         => /\ out[ResultsBefore(children, i) + 1].tag = "error"
                            /\ texts[ResultsBefore(children, i) + 1] = "Invalid balance value"
                            /\ children[i].id \notin DOMAIN db.accounts
                                  => children[i].id \notin DOMAIN db'.accounts
                /\ \A e \in ListedEntries(children) :
                      children[e[1]].listed[e[2]].amount < 0
                         => out[ResultsBefore(children, e[1]) + e[2]].tag = "error"
                /\ \A id \in DOMAIN db'.accounts :
                      db'.accounts[id] < 0 => id \in DOMAIN db.accounts /\ db.accounts[id] < 0
                /\ \A p \in DOMAIN db'.positions :
                      db'.positions[p] < 0
                         => p \in DOMAIN db.positions /\ db.positions[p] < 0]_vars

\* C29: after a <create>, the position of every account on every symbol is its
\* position before (0 when it had none) plus the amounts the request lists for it
\* under accounts that exist, each such entry is answered <created sym=.. id=../>
\* and leaves a position row; an account listed twice is added to twice.
C29_AdditiveSeeding ==
    [][CreateServed
          => LET children == request'.children
                 out == Outcomes(response')
             IN /\ \A id \in AccountIds, sym \in Symbols :
                      Held(db', id, sym) = Held(db, id, sym) + ListedFor(children, id, sym)
                /\ \A e \in ListedEntries(children) :
                      LET entry == children[e[1]].listed[e[2]]
                          answer == out[ResultsBefore(children, e[1]) + e[2]]
                      IN ExistsAt(children, e[1], entry.id)
                            => /\ answer.tag = "created"
                               /\ AttrValue(answer, "sym") = children[e[1]].sym
                               /\ AttrValue(answer, "id") = entry.id
                               /\ <<entry.id, children[e[1]].sym>> \in DOMAIN db'.positions]_vars

\* C29 witness: a <symbol> child that lists one share twice for the same account
\* has been answered with two <created>, and the account holds two shares
C29_SeededTwice ==
    /\ phase = "reply"
    /\ request.tag = "create"
    /\ request.children[1].tag = "symbol"
    /\ Len(request.children[1].listed) = 2
    /\ request.children[1].listed[1] = request.children[1].listed[2]
    /\ request.children[1].listed[1].amount = 1
    /\ Len(Outcomes(response)) = 2
    /\ \A n \in 1..2 : Outcomes(response)[n].tag = "created"
    /\ Held(db, request.children[1].listed[1].id, request.children[1].sym) = 2

\* C30: a position listed for an account that does not exist is answered
\* <error sym=.. id=..>Account does not exist</error>, leaves no position row and
\* no account row for that id, and the positions the same <symbol> lists for
\* accounts that exist are added all the same.
C30_SeedUnknownAccount ==
    [][CreateServed
          => LET children == request'.children
                 out == Outcomes(response')
                 texts == OutcomeTexts(response', 0)
             IN \A e \in ListedEntries(children) :
                   LET entry == children[e[1]].listed[e[2]]
                       sym == children[e[1]].sym
                       n == ResultsBefore(children, e[1]) + e[2]
                   IN ~ExistsAt(children, e[1], entry.id)
                         => /\ out[n].tag = "error"
                            /\ AttrValue(out[n], "sym") = sym
                            /\ AttrValue(out[n], "id") = entry.id
                            /\ texts[n] = "Account does not exist"
                            /\ entry.id \notin DOMAIN db'.accounts
                            /\ <<entry.id, sym>> \notin DOMAIN db'.positions
                            /\ \A f \in ListedEntries(children) :
                                  LET other == children[f[1]].listed[f[2]]
                                  IN (f[1] = e[1] /\ ExistsAt(children, f[1], other.id))
                                        => /\ out[ResultsBefore(children, f[1]) + f[2]].tag
                                                 = "created"
                                           /\ Held(db', other.id, sym)
                                                 = Held(db, other.id, sym)
                                                   + ListedFor(children, other.id, sym)]_vars

\* C30 witness: a <symbol> child that lists an account that does not exist and
\* then one that does has been answered with an error and a <created>, and the
\* second account holds what was listed for it
C30_UnknownThenKnown ==
    /\ phase = "reply"
    /\ request.tag = "create"
    /\ request.children[1].tag = "symbol"
    /\ Len(request.children[1].listed) = 2
    /\ request.children[1].listed[1].id \notin DOMAIN db.accounts
    /\ request.children[1].listed[2].id \in DOMAIN db.accounts
    /\ Outcomes(response)[1].tag = "error"
    /\ OutcomeTexts(response, 0)[1] = "Account does not exist"
    /\ Outcomes(response)[2].tag = "created"
    /\ <<request.children[1].listed[2].id, request.children[1].sym>> \in DOMAIN db.positions

\* C31: the quantity of a fill is min(what the incoming order has left, the
\* counter-order's remaining_amount), and the fill takes exactly that quantity
\* off the remaining_amount of the counter-order and of the incoming order.
C31_ExecutionQuantity ==
    (phase = "transactions" /\ last.match.priced)
        => /\ last.match.execution_amount
                 = Min(Abs(last.amount), PricedOrder.remaining_amount)
           /\ tx.orders[last.match.match_id].remaining_amount
                 = PricedOrder.remaining_amount - last.match.execution_amount
           /\ \E i \in DOMAIN tx.orders \ DOMAIN last.before.orders :
                 /\ tx.orders[i].account_id = last.account_id
                 /\ tx.orders[i].remaining_amount
                       = Abs(last.amount) - last.match.execution_amount

\* the shares the fill rows of store give the orders of one side of sym
SideFilled(store, sym, buys) ==
    LET ids == { i \in DOMAIN store.orders :
                    store.orders[i].symbol = sym /\ IsBuy(store.orders[i]) = buys }
    IN SumOver(ids, [i \in ids |-> FilledShares(store, i)])

\* the resting orders the last <order> could trade with, as it found them
Counterparts ==
    { i \in DOMAIN last.before.orders :
         Eligible(last.before.orders[i], last.sym, last.amount > 0, last.limit) }

\* C32: per symbol the shares filled on buy orders equal the shares filled on sell
\* orders, and an <order> that passes its check and crosses a resting order
\* leaves two new execution rows with the same positive shares and the same
\* price, one for the resting order and one for the new order.
C32_PairedExecutions ==
    /\ \A sym \in Symbols : SideFilled(db, sym, TRUE) = SideFilled(db, sym, FALSE)
    /\ (phase = "transactions" /\ OrderPassesCheck /\ Counterparts # {})
          => \E k, m \in DOMAIN tx.executions \ DOMAIN last.before.executions :
                /\ tx.executions[k].order_id \in Counterparts
                /\ tx.executions[m].order_id \notin DOMAIN last.before.orders
                /\ tx.executions[k].shares > 0
                /\ tx.executions[k].shares = tx.executions[m].shares
                /\ tx.executions[k].price = tx.executions[m].price

\* C33: of two counter-orders the matcher fetched with the same limit_price and
\* the same time_created, the one with the smaller order_id comes first.
C33_DeterministicTieBreak ==
    last.match.called
        => \A i, j \in 1..Len(last.match.matching_orders) :
              LET a == last.before.orders[last.match.matching_orders[i]]
                  b == last.before.orders[last.match.matching_orders[j]]
              IN (i < j /\ a.limit_price = b.limit_price
                        /\ a.time_created = b.time_created)
                    => a.order_id < b.order_id

\* the execution rows of store with shares = 0 that name order id
Markers(store, id) ==
    { k \in DOMAIN store.executions :
         store.executions[k].order_id = id /\ store.executions[k].shares = 0 }

\* C34: in every committed state an order has at most one execution row with
\* shares = 0, that row has price = 0, and the order has one exactly when its
\* cancel has committed; an <order> adds no row with shares = 0.
C34_CancellationMarker ==
    /\ \A i \in DOMAIN db.orders :
          /\ Cardinality(Markers(db, i)) <= 1
          /\ \A k \in Markers(db, i) : db.executions[k].price = 0
          /\ Markers(db, i) # {} <=> db.orders[i].status = "cancelled"
    /\ \A k \in DOMAIN db.executions :
          db.executions[k].shares = 0 => db.executions[k].order_id \in DOMAIN db.orders
    /\ (phase = "transactions" /\ last.op = "order")
          => \A k \in DOMAIN tx.executions \ DOMAIN last.before.executions :
                tx.executions[k].shares # 0

\* C34 witness: a cancel has committed, and the order it cancelled has its one
\* zero-share row
C34_MarkerWritten ==
    /\ phase = "transactions"
    /\ last.op = "cancel"
    /\ last.id \in DOMAIN db.orders
    /\ last.before.orders[last.id].status = "open"
    /\ db.orders[last.id].status = "cancelled"
    /\ Cardinality(Markers(db, last.id)) = 1
    /\ Markers(last.before, last.id) = {}

\* the remaining_amount of every order of store is what its fill rows leave of it
RemainingAccounted(store) ==
    \A i \in DOMAIN store.orders :
       /\ 0 <= store.orders[i].remaining_amount
       /\ store.orders[i].remaining_amount <= Abs(store.orders[i].amount)
       /\ store.orders[i].remaining_amount
             = Abs(store.orders[i].amount) - FilledShares(store, i)

C36_PositiveLimit ==
    /\ \A i \in DOMAIN db.orders : db.orders[i].limit_price > 0
    /\ (phase = "transactions" /\ last.op = "order" /\ last.limit <= 0)
          => /\ ~last.result.none
             /\ Head(last.result.xml).tag = "error"
             /\ tx.accounts = last.before.accounts
             /\ tx.positions = last.before.positions

\* what the open transaction of client c has taken off the balance of account a
PendingCash(c, a) == db.accounts[a] - clients[c].view.accounts[a]

\* what the open transaction of client c has taken off position p
PendingShares(c, p) ==
    IF p \in DOMAIN db.positions THEN db.positions[p] - clients[c].view.positions[p]
    ELSE 0

\* C37: under every interleaving of the clients' orders, what the open
\* transactions have debited from one balance, or from one position, never adds
\* up to more than the committed row holds, no two transactions hold a debit of
\* the same row at once, and two orders of one account that together cost more
\* than the balance, or sell more than the position, are never both opened.
C37_AtomicCheckAndDebit ==
    /\ \A a \in DOMAIN db.accounts :
          /\ SumOver(Clients, [c \in Clients |-> PendingCash(c, a)]) <= db.accounts[a]
          /\ Cardinality({ c \in Clients : PendingCash(c, a) # 0 }) <= 1
    /\ \A p \in DOMAIN db.positions :
          /\ SumOver(Clients, [c \in Clients |-> PendingShares(c, p)]) <= db.positions[p]
          /\ Cardinality({ c \in Clients : PendingShares(c, p) # 0 }) <= 1
    /\ \A c, d \in Clients :
          (/\ c # d
           /\ clients[c].account_id = clients[d].account_id
           /\ Opened(clients[c].result) /\ Opened(clients[d].result))
             => IF clients[c].amount > 0 /\ clients[d].amount > 0
                THEN clients[c].amount * clients[c].limit
                        + clients[d].amount * clients[d].limit
                           <= db.accounts[clients[c].account_id]
                ELSE (clients[c].amount < 0 /\ clients[d].amount < 0
                         /\ clients[c].sym = clients[d].sym)
                        => Abs(clients[c].amount) + Abs(clients[d].amount)
                              <= Held(db, clients[c].account_id, clients[c].sym)

\* C37 witness: one client has debited a balance for its buy and holds the row,
\* while the buy of another client of the same account, which the balance
\* covers alone but not on top of the first, has yet to read it
C37_SecondBuyWaits ==
    \E c, d \in Clients :
       /\ c # d
       /\ clients[c].account_id = clients[d].account_id
       /\ clients[c].amount > 0 /\ clients[d].amount > 0
       /\ PendingCash(c, clients[c].account_id) > 0
       /\ <<"accounts", clients[c].account_id>> \in clients[c].locks
       /\ clients[d].pc = "order"
       /\ clients[d].amount * clients[d].limit <= db.accounts[clients[d].account_id]
       /\ clients[c].amount * clients[c].limit + clients[d].amount * clients[d].limit
             > db.accounts[clients[d].account_id]

\* the <cancel> of client c was answered <canceled>
ClientCancelled(c) ==
    ~clients[c].cancel_result.none /\ Head(clients[c].cancel_result.xml).tag = "canceled"

Resting(store, i) ==
    store.orders[i].status = "open" /\ store.orders[i].remaining_amount > 0

AbortedChildAnswered(c) ==
    LET k == clients[c]
        answer == IF k.aborted = "order" THEN k.result ELSE k.cancel_result
    IN k.aborted # ""
          => /\ ~answer.none
             /\ Head(answer.xml).tag = "error"
             /\ k.pc \in {"cancel", "refund", "returned", "closed"}
             /\ k.aborted = "cancel" => k.pc \in {"returned", "closed"}
             /\ k.pc = "returned" => k.view = db /\ k.locks = {}

\* C40: whatever rows the clients wait for, every envelope is answered in the
\* end; a child failed by a deadlock is answered with an <error>, its
\* connection rolled back, and is not run again, and not every client is failed.
C40_EventualResponse ==
    /\ <>(\A c \in Clients : clients[c].pc = "closed")
    /\ [](\A c \in Clients : AbortedChildAnswered(c))
    /\ [](\E c \in Clients : clients[c].aborted = "")

\* C40 witness: two clients wait for each other's rows
C40_CyclicWait ==
    \E c, d \in Clients :
       /\ c # d
       /\ d \in WaitsFor(c)
       /\ c \in WaitsFor(d)

====
